---- MODULE Spec2Model ----
(***************************************************************************)
(* State-machine model of hid/lib/drivers-pico/factory.cpp: the UsbKeyboard *)
(* and UsbMouse drivers and the transport object gKbMouse they write to.    *)
(***************************************************************************)
EXTENDS Integers, FiniteSets, Sequences, TLC

VARIABLES
    mModifiers,   \* UsbKeyboard::mModifiers (int, never initialised)
    mKeys,        \* UsbKeyboard::mKeys (std::set<int>)
    mButtons,     \* UsbMouse::mButtons (int, never initialised)
    mPositionX,   \* UsbMouse::mPositionX (int, never initialised)
    mPositionY,   \* UsbMouse::mPositionY (int, never initialised)
    mScroll,      \* UsbMouse::mScroll (int, never initialised)
    wire,         \* calls made on gKbMouse by the last driver call, in order
    hostReport,   \* last keyboard report handed to gKbMouse.send
    hostMouse,    \* last arguments handed to gKbMouse.update
    lastCall,     \* the driver call that produced this state
    streak,       \* history: distinct regular codes pressed since the set was
                  \* last known empty, with no release in between
    held,         \* history: modifier codes pressed and not released since
    order,        \* history: the held usages in the order their presses were
                  \* accepted (kept only where order.on)
    board,        \* "Running", or "Resetting" once PicoBoard::reset was called
    config,       \* the macros this build defines
    made          \* what each Factory::make* call has returned so far

vars == <<mModifiers, mKeys, mButtons, mPositionX, mPositionY, mScroll,
          wire, hostReport, hostMouse, lastCall, streak, held, order,
          board, config, made>>

kbdVars == <<mModifiers, mKeys, hostReport, streak, held, order>>
mouseVars == <<mButtons, mPositionX, mPositionY, mScroll, hostMouse>>
sysVars == <<board, config, made>>

----------------------------------------------------------------------------
\* Bounds of the model

\* regular key codes sent by the dispatcher are 1..MaxKeyCode (and 84)
MaxKeyCode == 5
\* coordinates and scroll values sent by the dispatcher are -1..MaxCoord
MaxCoord == 1
\* regular key codes sent by the dispatcher in OrderSpec are 1..MaxOrderCode
MaxOrderCode == 3
\* a sendButtons call of the dispatcher addresses at most this many buttons
\* (the others get Select = State = false)
MaxButtonsPerCall == 1

----------------------------------------------------------------------------
\* Program constants

KEY_CTRL == 1
KEY_SHIFT == 2
KEY_ALT == 4
KEY_LOGO == 8
KEY_RCTRL == 16
KEY_RSHIFT == 32
KEY_RALT == 64
MOUSE_LEFT == 1
MOUSE_RIGHT == 2
MOUSE_MIDDLE == 4
REPORT_ID_KEYBOARD == 1
\* capacity test of sendKey: mKeys.size() < 5
KeysCapacity == 5
\* report.length = 9
ReportLength == 9

\* the driver of a device the dispatcher has not instantiated
NoDriver == "none"

----------------------------------------------------------------------------
\* Bit operations on non-negative ints

RECURSIVE BitOr(_, _)
BitOr(a, b) ==
    IF a = 0 THEN b
    ELSE IF b = 0 THEN a
    ELSE (IF a % 2 = 1 \/ b % 2 = 1 THEN 1 ELSE 0) + 2 * BitOr(a \div 2, b \div 2)

\* a & ~b
RECURSIVE BitAndNot(_, _)
BitAndNot(a, b) ==
    IF a = 0 THEN 0
    ELSE (IF a % 2 = 1 /\ b % 2 = 0 THEN 1 ELSE 0) + 2 * BitAndNot(a \div 2, b \div 2)

\* a & b
RECURSIVE BitAnd(_, _)
BitAnd(a, b) ==
    IF a = 0 \/ b = 0 THEN 0
    ELSE (IF a % 2 = 1 /\ b % 2 = 1 THEN 1 ELSE 0) + 2 * BitAnd(a \div 2, b \div 2)

\* values the never-initialised mModifiers may hold when first read: zero,
\* stray modifier bits, the bit no code owns (128), a bit above the byte (256)
UninitModifiers == {0, 5, 200, 260}

----------------------------------------------------------------------------
\* UsbKeyboard

\* the codes of a uint8_t
AllCodes == 0 .. 255

\* key codes the dispatcher sends in Spec: the regular keys 1..MaxKeyCode,
\* 84 (MetaRight) and two codes of the switch in codeToModifier
Codes == (1 .. MaxKeyCode) \cup {79, 83, 84}

\* key codes the dispatcher sends in ModSpec: every code of the switch in
\* codeToModifier, 84 (MetaRight) and one regular key
ModCodes == (77 .. 84) \cup {1}

codeToModifier(code) ==
    CASE code = 77 -> KEY_CTRL
      [] code = 78 -> KEY_SHIFT
      [] code = 79 -> KEY_ALT
      [] code = 80 -> KEY_LOGO
      [] code = 81 -> KEY_RCTRL
      [] code = 82 -> KEY_RSHIFT
      [] code = 83 -> KEY_RALT
      [] OTHER -> -1

\* the lookup table of usb-keymap.h: one USB usage id per key code
keymapUsb(code) ==
    IF code \in 77 .. 84 THEN 224 + (code - 77) ELSE code + 3

\* updateModifiers with the complement forgotten on release: mModifiers &= mod
updateModifiers_NoComplement(modifiers, mod, state) ==
    IF state THEN BitOr(modifiers, mod) ELSE BitAnd(modifiers, mod)

\* mModifiers |= mod  /  mModifiers &= ~mod
updateModifiers(modifiers, mod, state) ==
    IF state THEN BitOr(modifiers, mod) ELSE BitAndNot(modifiers, mod)

\* pressKey without the capacity test
pressKey_NoLimit(keys, key) == keys \cup {key}

\* pressKey that makes room at capacity by dropping the last entry
pressKey_Evict(keys, key) ==
    IF Cardinality(keys) < KeysCapacity \/ key \in keys THEN keys \cup {key}
    ELSE (keys \ {CHOOSE k \in keys : \A j \in keys : j <= k}) \cup {key}

\* pressKey with the capacity test off by one: mKeys.size() < 4
pressKey_Short(keys, key) ==
    IF Cardinality(keys) < KeysCapacity - 1 THEN keys \cup {key} ELSE keys

\* if (mKeys.size() < 5) mKeys.emplace(key)
pressKey(keys, key) ==
    IF Cardinality(keys) < KeysCapacity THEN keys \cup {key} ELSE keys

\* releaseKey that erases the first entry instead of the found one
releaseKey_First(keys, key) ==
    IF key \in keys THEN keys \ {CHOOSE k \in keys : \A j \in keys : k <= j} ELSE keys

\* iter = mKeys.find(key); if (iter != mKeys.end()) mKeys.erase(iter)
releaseKey(keys, key) ==
    IF key \in keys THEN keys \ {key} ELSE keys

\* cbegin of a set that iterates in descending order
SetMin_Descending(keys) == CHOOSE k \in keys : \A j \in keys : j <= k

\* mKeys.cbegin(): std::set<int> iterates in ascending order
SetMin(keys) == CHOOSE k \in keys : \A j \in keys : k <= j

\* min(mKeys.size(), 1)
Min(a, b) == IF a < b THEN a ELSE b

\* buildReport with the loop bound min(mKeys.size(), 5): every held key gets
\* a slot
buildReport_AllSlots(modifiers, keys) ==
    [i \in 1 .. ReportLength |->
        IF i = 1 THEN REPORT_ID_KEYBOARD
        ELSE IF i = 2 THEN modifiers % 256
        ELSE IF i >= 4 /\ i - 4 < Cardinality(keys) /\ i - 4 < 5
             THEN (CHOOSE k \in keys :
                      Cardinality({j \in keys : j < k}) = i - 4) % 256
        ELSE 0]

\* the HID_REPORT built by sendRaport; data[] are uint8_t
buildReport(modifiers, keys) ==
    [i \in 1 .. ReportLength |->
        IF i = 1 THEN REPORT_ID_KEYBOARD
        ELSE IF i = 2 THEN modifiers % 256
        ELSE IF i = 4 /\ Min(Cardinality(keys), 1) > 0 THEN SetMin(keys) % 256
        ELSE 0]

\* gKbMouse.send(&report)
sendRaport(modifiers, keys) ==
    /\ wire' = <<[fn |-> "send", data |-> buildReport(modifiers, keys)]>>
    /\ hostReport' = buildReport(modifiers, keys)

\* the history variable: a regular press extends the run of presses, a
\* regular release ends it, a modifier code leaves it alone
streakAfterKey(code, state) ==
    IF codeToModifier(code) # -1 THEN streak
    ELSE IF ~state THEN [valid |-> FALSE, codes |-> {}]
    ELSE IF streak.valid THEN [streak EXCEPT !.codes = @ \cup {code}]
    ELSE streak

\* the history variable: the modifier codes pressed and not released since
heldAfterKey(code, state) ==
    IF codeToModifier(code) = -1 THEN held
    ELSE IF state THEN held \cup {code}
    ELSE held \ {code}

\* the history variable: an accepted press of a usage not yet held goes to
\* the end, a release takes the usage out; keysAfter is mKeys after the call
orderAfterKey(code, state, keysAfter) ==
    LET key == keymapUsb(code) IN
    IF ~order.on \/ codeToModifier(code) # -1 THEN order
    ELSE IF state
         THEN IF key \notin mKeys /\ key \in keysAfter
              THEN [order EXCEPT !.seq = Append(@, key)]
              ELSE order
         ELSE [order EXCEPT !.seq = SelectSeq(@, LAMBDA k : k # key)]

\* the caller has control: no reset() has been entered
Running == board = "Running"

UsbKeyboard_init ==
    /\ mModifiers \in UninitModifiers
    /\ mKeys = {}
    /\ hostReport = <<>>
    /\ streak = [valid |-> TRUE, codes |-> {}]
    /\ held = {}

\* sendKey with the else of "if (mod != -1)" lost: a modifier code also takes
\* the regular-key path
sendKey_NoElse(code, state) ==
    /\ Running
    /\ LET mod == codeToModifier(code) IN
        /\ mModifiers' = IF mod # -1 THEN updateModifiers(mModifiers, mod, state)
                                     ELSE mModifiers
        /\ mKeys' = IF state THEN pressKey(mKeys, keymapUsb(code))
                              ELSE releaseKey(mKeys, keymapUsb(code))
    /\ sendRaport(mModifiers', mKeys')
    /\ streak' = streakAfterKey(code, state)
    /\ held' = heldAfterKey(code, state)
    /\ order' = orderAfterKey(code, state, mKeys')
    /\ lastCall' = [op |-> "sendKey", code |-> code, state |-> state]
    /\ UNCHANGED <<mouseVars, sysVars>>

\* sendKey that sends the report before it updates the state
sendKey_ReportBefore(code, state) ==
    /\ Running
    /\ LET mod == codeToModifier(code) IN
        IF mod # -1
        THEN /\ mModifiers' = updateModifiers(mModifiers, mod, state)
             /\ mKeys' = mKeys
        ELSE /\ mKeys' = IF state THEN pressKey(mKeys, keymapUsb(code))
                                  ELSE releaseKey(mKeys, keymapUsb(code))
             /\ mModifiers' = mModifiers
    /\ sendRaport(mModifiers, mKeys)
    /\ streak' = streakAfterKey(code, state)
    /\ held' = heldAfterKey(code, state)
    /\ order' = orderAfterKey(code, state, mKeys')
    /\ lastCall' = [op |-> "sendKey", code |-> code, state |-> state]
    /\ UNCHANGED <<mouseVars, sysVars>>

sendKey(code, state) ==
    /\ Running
    /\ LET mod == codeToModifier(code) IN
        IF mod # -1
        THEN /\ mModifiers' = updateModifiers(mModifiers, mod, state)
             /\ mKeys' = mKeys
        ELSE /\ mKeys' = IF state THEN pressKey(mKeys, keymapUsb(code))
                                  ELSE releaseKey(mKeys, keymapUsb(code))
             /\ mModifiers' = mModifiers
    /\ sendRaport(mModifiers', mKeys')
    /\ streak' = streakAfterKey(code, state)
    /\ held' = heldAfterKey(code, state)
    /\ order' = orderAfterKey(code, state, mKeys')
    /\ lastCall' = [op |-> "sendKey", code |-> code, state |-> state]
    /\ UNCHANGED <<mouseVars, sysVars>>

\* clear that erases only the first entry
clearKeys_First(keys) ==
    IF keys = {} THEN {} ELSE keys \ {CHOOSE k \in keys : \A j \in keys : k <= j}

\* mKeys.clear()
clearKeys(keys) == {}

\* clear that sends a report of the emptied set
UsbKeyboard_clear_Reports ==
    /\ Running
    /\ mKeys' = clearKeys(mKeys)
    /\ mModifiers' = mModifiers
    /\ sendRaport(mModifiers', mKeys')
    /\ streak' = [valid |-> TRUE, codes |-> {}]
    /\ order' = [order EXCEPT !.seq = <<>>]
    /\ lastCall' = [op |-> "clear", code |-> 0, state |-> FALSE]
    /\ UNCHANGED <<held, mouseVars, sysVars>>

UsbKeyboard_clear ==
    /\ Running
    /\ mKeys' = clearKeys(mKeys)
    /\ mModifiers' = mModifiers
    /\ wire' = <<>>
    /\ streak' = [valid |-> TRUE, codes |-> {}]
    /\ order' = [order EXCEPT !.seq = <<>>]
    /\ lastCall' = [op |-> "clear", code |-> 0, state |-> FALSE]
    /\ UNCHANGED <<hostReport, held, mouseVars, sysVars>>

SendKey == \E code \in Codes, state \in BOOLEAN : sendKey(code, state)

SendModKey == \E code \in ModCodes, state \in BOOLEAN : sendKey(code, state)

\* the mouse members when the dispatcher has not asked for a mouse
NoMouse ==
    /\ mButtons = NoDriver /\ mPositionX = NoDriver /\ mPositionY = NoDriver
    /\ mScroll = NoDriver /\ hostMouse = NoDriver

\* a build with the keyboard and the absolute mouse configured, from which
\* the dispatcher has taken the drivers in products
Assembled(products) ==
    /\ board = "Running"
    /\ config = {"HID_SET_USB_KBD", "HID_SET_USB_MOUSE_ABS", "CMD_SERIAL"}
    /\ made = [d \in {"keyboard", "mouse", "board", "storage"} |->
                  IF d \in DOMAIN products THEN products[d] ELSE "none"]

Init ==
    /\ UsbKeyboard_init
    /\ order = [on |-> FALSE, seq |-> <<>>]
    /\ NoMouse
    /\ Assembled([keyboard |-> "UsbKeyboard"])
    /\ wire = <<>>
    /\ lastCall = [op |-> "new", code |-> 0, state |-> FALSE]

Next == SendKey \/ UsbKeyboard_clear

Spec == Init /\ [][Next]_vars

ModNext == SendModKey \/ UsbKeyboard_clear

ModSpec == Init /\ [][ModNext]_vars

\* key codes the dispatcher sends in OrderSpec, where the order of the
\* accepted presses is recorded
OrderCodes == (1 .. MaxOrderCode) \cup {79}

SendOrderKey == \E code \in OrderCodes, state \in BOOLEAN : sendKey(code, state)

OrderInit ==
    /\ UsbKeyboard_init
    /\ order = [on |-> TRUE, seq |-> <<>>]
    /\ NoMouse
    /\ Assembled([keyboard |-> "UsbKeyboard"])
    /\ wire = <<>>
    /\ lastCall = [op |-> "new", code |-> 0, state |-> FALSE]

OrderNext == SendOrderKey \/ UsbKeyboard_clear

OrderSpec == OrderInit /\ [][OrderNext]_vars

----------------------------------------------------------------------------
\* UsbMouse

\* the five logical buttons of sendButtons
Buttons == {"left", "right", "middle", "up", "down"}

\* the bit of each logical button in the button mask: the three the driver
\* names, and the next two bits of the mask for up and down
ButtonBit ==
    [left |-> MOUSE_LEFT, right |-> MOUSE_RIGHT, middle |-> MOUSE_MIDDLE,
     up |-> 8, down |-> 16]

\* coordinates and scroll values the dispatcher sends
Coord == (0 - 1) .. MaxCoord

\* values the never-initialised mButtons may hold when first read
UninitButtons == {0, 5, 26}

\* values the never-initialised mPositionX, mPositionY, mScroll may hold
UninitCoord == {0, 99}

\* the three if/else blocks of sendButtons, in order
updateButtons(buttons, select, state) ==
    LET afterLeft == IF state["left"] THEN BitOr(buttons, MOUSE_LEFT)
                                      ELSE BitAndNot(buttons, MOUSE_LEFT)
        afterRight == IF select["right"] THEN BitOr(afterLeft, MOUSE_RIGHT)
                                         ELSE BitAndNot(afterLeft, MOUSE_RIGHT)
    IN  IF state["middle"] THEN BitOr(afterRight, MOUSE_MIDDLE)
                           ELSE BitAndNot(afterRight, MOUSE_MIDDLE)

\* gKbMouse.update(mPositionX, mPositionY, mButtons, mScroll)
sendUpdate(x, y, buttons, z) ==
    /\ wire' = <<[fn |-> "update", x |-> x, y |-> y, buttons |-> buttons, z |-> z]>>
    /\ hostMouse' = [x |-> x, y |-> y, buttons |-> buttons, z |-> z]

UsbMouse_init ==
    /\ mButtons \in UninitButtons
    /\ mPositionX \in UninitCoord
    /\ mPositionY \in UninitCoord
    /\ mScroll \in UninitCoord
    /\ hostMouse = <<>>

sendButtons(select, state) ==
    /\ Running
    /\ mButtons' = updateButtons(mButtons, select, state)
    /\ UNCHANGED <<mPositionX, mPositionY, mScroll>>
    /\ sendUpdate(mPositionX', mPositionY', mButtons', mScroll')
    /\ lastCall' = [op |-> "sendButtons", select |-> select, state |-> state]
    /\ UNCHANGED <<kbdVars, sysVars>>

\* sendRelative that also adds the deltas to the cached position
sendRelative_Accumulate(x, y) ==
    /\ Running
    /\ wire' = <<[fn |-> "move", x |-> x, y |-> y]>>
    /\ mPositionX' = mPositionX + x
    /\ mPositionY' = mPositionY + y
    /\ lastCall' = [op |-> "sendRelative"]
    /\ UNCHANGED <<mButtons, mScroll, hostMouse, kbdVars, sysVars>>

\* gKbMouse.move(x, y)
sendRelative(x, y) ==
    /\ Running
    /\ wire' = <<[fn |-> "move", x |-> x, y |-> y]>>
    /\ lastCall' = [op |-> "sendRelative"]
    /\ UNCHANGED <<mouseVars, kbdVars, sysVars>>

\* sendMove that calls sendUpdate before it stores the position
sendMove_UpdateFirst(x, y) ==
    /\ Running
    /\ mPositionX' = x
    /\ mPositionY' = y
    /\ UNCHANGED <<mButtons, mScroll>>
    /\ sendUpdate(mPositionX, mPositionY, mButtons, mScroll)
    /\ lastCall' = [op |-> "sendMove"]
    /\ UNCHANGED <<kbdVars, sysVars>>

sendMove(x, y) ==
    /\ Running
    /\ mPositionX' = x
    /\ mPositionY' = y
    /\ UNCHANGED <<mButtons, mScroll>>
    /\ sendUpdate(mPositionX', mPositionY', mButtons', mScroll')
    /\ lastCall' = [op |-> "sendMove"]
    /\ UNCHANGED <<kbdVars, sysVars>>

sendWheel(z) ==
    /\ Running
    /\ mScroll' = z
    /\ UNCHANGED <<mButtons, mPositionX, mPositionY>>
    /\ sendUpdate(mPositionX', mPositionY', mButtons', mScroll')
    /\ lastCall' = [op |-> "sendWheel"]
    /\ UNCHANGED <<kbdVars, sysVars>>

\* clear that forgets mScroll
UsbMouse_clear_KeepScroll ==
    /\ Running
    /\ mButtons' = 0
    /\ mPositionX' = 0
    /\ mPositionY' = 0
    /\ mScroll' = mScroll
    /\ wire' = <<>>
    /\ lastCall' = [op |-> "clearMouse"]
    /\ UNCHANGED <<hostMouse, kbdVars, sysVars>>

UsbMouse_clear ==
    /\ Running
    /\ mButtons' = 0
    /\ mPositionX' = 0
    /\ mPositionY' = 0
    /\ mScroll' = 0
    /\ wire' = <<>>
    /\ lastCall' = [op |-> "clearMouse"]
    /\ UNCHANGED <<hostMouse, kbdVars, sysVars>>

\* the argument lists of sendButtons the dispatcher sends
ButtonArgs ==
    {a \in [select : [Buttons -> BOOLEAN], state : [Buttons -> BOOLEAN]] :
        Cardinality({b \in Buttons : a.select[b] \/ a.state[b]}) <= MaxButtonsPerCall}

SendButtons == \E a \in ButtonArgs : sendButtons(a.select, a.state)

SendRelative == \E x \in Coord, y \in Coord : sendRelative(x, y)

SendMove == \E x \in Coord, y \in Coord : sendMove(x, y)

SendWheel == \E z \in Coord : sendWheel(z)

\* the keyboard members when the dispatcher has not asked for a keyboard
NoKeyboard ==
    /\ mModifiers = NoDriver /\ mKeys = NoDriver
    /\ hostReport = NoDriver /\ streak = NoDriver
    /\ held = NoDriver /\ order = NoDriver

MouseInit ==
    /\ UsbMouse_init
    /\ NoKeyboard
    /\ Assembled([mouse |-> "UsbMouse"])
    /\ wire = <<>>
    /\ lastCall = [op |-> "new"]

MouseNext ==
    SendButtons \/ SendRelative \/ SendMove \/ SendWheel \/ UsbMouse_clear

MouseSpec == MouseInit /\ [][MouseNext]_vars

----------------------------------------------------------------------------
\* UsbKeyboard and UsbMouse on the shared gKbMouse

\* what the dispatcher sends in BothSpec
BothCodes == {1, 79}
BothCoord == {1}
BothButtonArgs ==
    {a \in [select : [Buttons -> BOOLEAN], state : [Buttons -> BOOLEAN]] :
        \A b \in Buttons \ {"left"} : ~a.select[b] /\ ~a.state[b]}

SendBothKey == \E code \in BothCodes, state \in BOOLEAN : sendKey(code, state)

SendBothButtons == \E a \in BothButtonArgs : sendButtons(a.select, a.state)

SendBothMove == \E x \in BothCoord, y \in BothCoord : sendMove(x, y)

SendBothWheel == \E z \in BothCoord : sendWheel(z)

\* the mouse alone, with sendButtons calls that address the left button only
PointerNext ==
    \/ SendBothButtons
    \/ SendRelative
    \/ SendMove
    \/ SendWheel
    \/ UsbMouse_clear

PointerSpec == MouseInit /\ [][PointerNext]_vars

BothInit ==
    /\ UsbKeyboard_init
    /\ order = [on |-> FALSE, seq |-> <<>>]
    /\ UsbMouse_init
    /\ Assembled([keyboard |-> "UsbKeyboard", mouse |-> "UsbMouse"])
    /\ wire = <<>>
    /\ lastCall = [op |-> "new", code |-> 0, state |-> FALSE]

BothNext ==
    \/ SendBothKey
    \/ UsbKeyboard_clear
    \/ SendBothButtons
    \/ SendBothMove
    \/ SendBothWheel
    \/ UsbMouse_clear

BothSpec == BothInit /\ [][BothNext]_vars

----------------------------------------------------------------------------
\* Factory

\* the macros the file tests
Macros ==
    {"HID_DYNAMIC", "HID_SET_USB_KBD", "HID_SET_USB_MOUSE_ABS",
     "HID_SET_USB_MOUSE_REL", "CMD_SERIAL"}

\* the values of DRIVERS::type the file names
Types ==
    {"DUMMY", "USB_KEYBOARD", "USB_MOUSE_ABSOLUTE", "USB_MOUSE_RELATIVE", "BOARD"}

\* the build succeeds: no #error is reached, and gKbMouse, which both driver
\* classes use, is defined
Compiles(cfg) ==
    /\ "HID_DYNAMIC" \notin cfg
    /\ "CMD_SERIAL" \in cfg
    /\ ("HID_SET_USB_MOUSE_ABS" \in cfg \/ "HID_SET_USB_MOUSE_REL" \in cfg)

\* makeKeyboard that returns no object when no keyboard is configured
makeKeyboard_Null(cfg, type) ==
    IF "HID_DYNAMIC" \in cfg
    THEN IF type = "USB_KEYBOARD" THEN "UsbKeyboard" ELSE "DummyKeyboard"
    ELSE IF "HID_SET_USB_KBD" \in cfg THEN "UsbKeyboard"
    ELSE "null"

makeKeyboard(cfg, type) ==
    IF "HID_DYNAMIC" \in cfg
    THEN IF type = "USB_KEYBOARD" THEN "UsbKeyboard" ELSE "DummyKeyboard"
    ELSE IF "HID_SET_USB_KBD" \in cfg THEN "UsbKeyboard"
    ELSE "DummyKeyboard"

makeMouse(cfg, type) ==
    IF "HID_DYNAMIC" \in cfg
    THEN IF type = "USB_MOUSE_ABSOLUTE" THEN "UsbMouse(USB_MOUSE_ABSOLUTE)"
         ELSE IF type = "USB_MOUSE_RELATIVE" THEN "UsbMouse(USB_MOUSE_RELATIVE)"
         ELSE "DummyMouse"
    ELSE IF "HID_SET_USB_MOUSE_ABS" \in cfg THEN "UsbMouse(USB_MOUSE_ABSOLUTE)"
    ELSE IF "HID_SET_USB_MOUSE_REL" \in cfg THEN "UsbMouse(USB_MOUSE_RELATIVE)"
    ELSE "DummyMouse"

makeStorage(type) == "DummyStorage"

makeBoard(type) == IF type = "BOARD" THEN "PicoBoard" ELSE "DummyBoard"

\* new UsbKeyboard(): the members of a fresh keyboard
newKeyboard ==
    /\ mModifiers' \in UninitModifiers
    /\ mKeys' = {}
    /\ streak' = [valid |-> TRUE, codes |-> {}]
    /\ held' = {}
    /\ order' = [on |-> FALSE, seq |-> <<>>]

\* new UsbMouse(type): the members of a fresh mouse
newMouse ==
    /\ mButtons' \in UninitButtons
    /\ mPositionX' \in UninitCoord
    /\ mPositionY' \in UninitCoord
    /\ mScroll' \in UninitCoord

Factory_makeKeyboard(type) ==
    /\ Running /\ Compiles(config)
    /\ made' = [made EXCEPT !.keyboard = makeKeyboard(config, type)]
    /\ IF made'.keyboard = "UsbKeyboard" THEN newKeyboard
       ELSE UNCHANGED <<mModifiers, mKeys, streak, held, order>>
    /\ lastCall' = [op |-> "makeKeyboard", type |-> type]
    /\ UNCHANGED <<mouseVars, hostReport, wire, board, config>>

Factory_makeMouse(type) ==
    /\ Running /\ Compiles(config)
    /\ made' = [made EXCEPT !.mouse = makeMouse(config, type)]
    /\ IF made'.mouse # "DummyMouse" THEN newMouse
       ELSE UNCHANGED <<mButtons, mPositionX, mPositionY, mScroll>>
    /\ lastCall' = [op |-> "makeMouse", type |-> type]
    /\ UNCHANGED <<kbdVars, hostMouse, wire, board, config>>

Factory_makeStorage(type) ==
    /\ Running /\ Compiles(config)
    /\ made' = [made EXCEPT !.storage = makeStorage(type)]
    /\ lastCall' = [op |-> "makeStorage", type |-> type]
    /\ UNCHANGED <<kbdVars, mouseVars, wire, board, config>>

Factory_makeBoard(type) ==
    /\ Running /\ Compiles(config)
    /\ made' = [made EXCEPT !.board = makeBoard(type)]
    /\ lastCall' = [op |-> "makeBoard", type |-> type]
    /\ UNCHANGED <<kbdVars, mouseVars, wire, board, config>>

MakeKeyboard == \E type \in Types : Factory_makeKeyboard(type)

MakeMouse == \E type \in Types : Factory_makeMouse(type)

MakeStorage == \E type \in Types : Factory_makeStorage(type)

MakeBoard == \E type \in Types : Factory_makeBoard(type)

\* any set of macros may be defined; nothing has been made yet
FactoryInit ==
    /\ config \in SUBSET Macros
    /\ made = [d \in {"keyboard", "mouse", "board", "storage"} |-> "none"]
    /\ board = "Running"
    /\ mModifiers = NoDriver /\ mKeys = NoDriver /\ streak = NoDriver
    /\ held = NoDriver /\ order = NoDriver
    /\ mButtons = NoDriver /\ mPositionX = NoDriver /\ mPositionY = NoDriver
    /\ mScroll = NoDriver
    /\ hostReport = <<>> /\ hostMouse = <<>>
    /\ wire = <<>>
    /\ lastCall = [op |-> "new", type |-> "DUMMY"]

FactoryNext == MakeKeyboard \/ MakeMouse \/ MakeStorage \/ MakeBoard

FactorySpec == FactoryInit /\ [][FactoryNext]_vars

----------------------------------------------------------------------------
\* PicoBoard

\* reset whose body returns to the caller
PicoBoard_reset_Returns ==
    /\ Running
    /\ board' = board
    /\ wire' = <<>>
    /\ lastCall' = [op |-> "reset", code |-> 0, state |-> FALSE]
    /\ UNCHANGED <<kbdVars, mouseVars, config, made>>

\* __NVIC_SystemReset(): the call does not return
PicoBoard_reset ==
    /\ Running
    /\ board' = "Resetting"
    /\ wire' = <<>>
    /\ lastCall' = [op |-> "reset", code |-> 0, state |-> FALSE]
    /\ UNCHANGED <<kbdVars, mouseVars, config, made>>

PicoBoard_periodic ==
    /\ Running
    /\ wire' = <<>>
    /\ lastCall' = [op |-> "periodic", code |-> 0, state |-> FALSE]
    /\ UNCHANGED <<kbdVars, mouseVars, sysVars>>

PicoBoard_updateStatus(status) ==
    /\ Running
    /\ wire' = <<>>
    /\ lastCall' = [op |-> "updateStatus", code |-> status, state |-> FALSE]
    /\ UNCHANGED <<kbdVars, mouseVars, sysVars>>

\* status values the dispatcher passes
Statuses == {0, 1}

UpdateStatus == \E status \in Statuses : PicoBoard_updateStatus(status)

\* key codes the dispatcher sends in BoardSpec
BoardCodes == {1, 2, 79}

SendBoardKey == \E code \in BoardCodes, state \in BOOLEAN : sendKey(code, state)

\* the dispatcher holds a PicoBoard and a UsbKeyboard
BoardInit ==
    /\ UsbKeyboard_init
    /\ order = [on |-> FALSE, seq |-> <<>>]
    /\ NoMouse
    /\ Assembled([keyboard |-> "UsbKeyboard", board |-> "PicoBoard"])
    /\ wire = <<>>
    /\ lastCall = [op |-> "new", code |-> 0, state |-> FALSE]

BoardNext ==
    \/ PicoBoard_reset
    \/ PicoBoard_periodic
    \/ UpdateStatus
    \/ SendBoardKey
    \/ UsbKeyboard_clear

BoardSpec == BoardInit /\ [][BoardNext]_vars

----------------------------------------------------------------------------
\* Properties of UsbKeyboard

\* bit k of a non-negative int, read without the operators of the model
Pow2(k) == 2 ^ k
BitAt(m, k) == (m \div Pow2(k)) % 2
\* bits 0..8 cover the report byte and the bit above it
CheckedBits == 0 .. 8

\* the step records a call sendKey(code, state): implied by sendKey(code,
\* state) itself, and tested first because it is cheap
IsCall(code, state) ==
    lastCall'.op = "sendKey" /\ lastCall'.code = code /\ lastCall'.state = state

\* the last call was sendKey(code, state) of a regular (non-modifier) code
LastRegular(state) ==
    /\ lastCall.op = "sendKey"
    /\ lastCall.state = state
    /\ codeToModifier(lastCall.code) = -1

\* C1: after any sequence of sendKey and clear calls the pressed-key set
\* holds at most 5 entries.
C1_AtMostFiveKeys == Cardinality(mKeys) <= 5

\* C1 witness: a regular press has just been made with 5 keys held
C1_Witness == LastRegular(TRUE) /\ Cardinality(mKeys) = 5

\* C2: with 5 entries held, sendKey(code, true) of a regular code whose usage
\* is not held leaves the set exactly as it was.
C2_SixthPressDropped ==
    [][\A code \in Codes :
        ( /\ IsCall(code, TRUE)
          /\ sendKey(code, TRUE)
          /\ codeToModifier(code) = -1
          /\ Cardinality(mKeys) = 5
          /\ keymapUsb(code) \notin mKeys )
        => ( /\ mKeys' = mKeys
             /\ Cardinality(mKeys') = 5
             /\ keymapUsb(code) \notin mKeys' )]_vars

\* C2 witness: the state after a regular press whose usage was refused at
\* capacity
C2_Witness ==
    /\ LastRegular(TRUE)
    /\ Cardinality(mKeys) = 5
    /\ keymapUsb(lastCall.code) \notin mKeys

\* C3: from an empty set, once 5 pairwise distinct regular codes have been
\* pressed with no release or clear in between, the set has exactly 5
\* entries, and further presses keep it at 5.
C3_FivePressesFill ==
    (streak.valid /\ Cardinality(streak.codes) >= 5) => Cardinality(mKeys) = 5

\* C3 witness: a run of 6 distinct regular presses from the empty set
C3_Witness ==
    /\ streak.valid
    /\ Cardinality(streak.codes) = 6
    /\ Cardinality(mKeys) = 5

\* C6: sendKey(79, true) sets exactly the Alt bit of mModifiers and
\* sendKey(79, false) clears exactly that bit; every code of the modifier
\* switch does the same with its own flag.
C6_ExactlyOneModifierBit ==
    [][\A code \in ModCodes, state \in BOOLEAN :
        (IsCall(code, state) /\ sendKey(code, state) /\ codeToModifier(code) # -1)
        => LET flag == IF code = 79 THEN 4 ELSE codeToModifier(code) IN
           /\ flag \in {Pow2(k) : k \in 0 .. 7}
           /\ \A k \in CheckedBits :
                BitAt(mModifiers', k) =
                    IF Pow2(k) = flag THEN (IF state THEN 1 ELSE 0)
                    ELSE BitAt(mModifiers, k)]_vars

\* C6 witness: Alt has just been released while other modifier bits stay set
C6_Witness ==
    /\ lastCall.op = "sendKey" /\ lastCall.code = 79 /\ ~lastCall.state
    /\ BitAt(mModifiers, 2) = 0
    /\ BitAt(mModifiers, 0) = 1 /\ BitAt(mModifiers, 6) = 1

\* the codes sendKey classifies as modifiers, and the flags of the modifier byte
ModifierCodes == {c \in AllCodes : codeToModifier(c) # -1}
ModifierFlags == {Pow2(k) : k \in 0 .. 7}

\* C7: exactly eight codes are classified as modifiers, they map one-to-one
\* onto the eight modifier flags, and a sendKey on any of the eight key codes
\* of the modifier keys (77..84) updates the mask and leaves the set alone.
C7_EightModifierCodes ==
    [][\A code \in ModCodes, state \in BOOLEAN :
        (IsCall(code, state) /\ sendKey(code, state) /\ code \in 77 .. 84)
        => ( /\ Cardinality(ModifierCodes) = 8
             /\ {codeToModifier(c) : c \in ModifierCodes} = ModifierFlags
             /\ code \in ModifierCodes
             /\ mKeys' = mKeys )]_vars

\* C8: a sendKey on a modifier code leaves the pressed-key set unchanged and
\* a sendKey on a regular code leaves the modifier mask unchanged.
C8_UnrelatedFieldKept ==
    [][\A code \in Codes, state \in BOOLEAN :
        (IsCall(code, state) /\ sendKey(code, state))
        => IF codeToModifier(code) # -1 THEN mKeys' = mKeys
                                        ELSE mModifiers' = mModifiers]_vars

\* C8 witness: a modifier press made with keys held and the set at capacity
C8_Witness ==
    /\ lastCall.op = "sendKey" /\ lastCall.state
    /\ codeToModifier(lastCall.code) # -1
    /\ Cardinality(mKeys) = 5

\* C9: clear() empties the pressed-key set and leaves mModifiers as it was.
C9_ClearKeepsModifiers ==
    [][UsbKeyboard_clear => (mKeys' = {} /\ mModifiers' = mModifiers)]_vars

\* C9 witness: clear() called with two keys and modifiers held
C9_Witness ==
    /\ lastCall.op = "clear"
    /\ mKeys = {}
    /\ mModifiers % 256 # 0
    /\ hostReport # <<>> /\ hostReport[4] # 0 /\ hostReport[2] # 0

\* usages of the codes the dispatcher sends
Usages == {keymapUsb(c) : c \in Codes}

\* C10: after sendKey(code, false) of a regular code its usage is not in the
\* set and every other entry is as before; an absent usage changes nothing.
C10_ReleaseRemovesOnlyThatKey ==
    [][\A code \in Codes :
        (IsCall(code, FALSE) /\ sendKey(code, FALSE) /\ codeToModifier(code) = -1)
        => ( /\ keymapUsb(code) \notin mKeys'
             /\ \A k \in (mKeys \cup mKeys' \cup Usages) \ {keymapUsb(code)} :
                    (k \in mKeys') <=> (k \in mKeys)
             /\ (keymapUsb(code) \notin mKeys => mKeys' = mKeys) )]_vars

\* C10 witness: a regular release that left four other keys held
C10_Witness ==
    /\ LastRegular(FALSE)
    /\ Cardinality(mKeys) = 4
    /\ keymapUsb(lastCall.code) \notin mKeys

\* the first key a std::set<int> iterates, 0 for the empty set
FirstIterated(keys) ==
    IF keys = {} THEN 0 ELSE CHOOSE k \in keys : \A j \in keys : k <= j

\* C11: every keyboard report transmitted is the 9 bytes
\* [reportId, modifiers, 0, key0, 0, 0, 0, 0, 0] with modifiers the current
\* mask (as a byte) and key0 the first-iterated held key, 0 if none.
C11_ReportFormat ==
    \A i \in DOMAIN wire :
        wire[i].fn = "send" =>
            LET data == wire[i].data IN
            /\ DOMAIN data = 1 .. 9
            /\ data[1] = REPORT_ID_KEYBOARD
            /\ data[2] = mModifiers % 256
            /\ data[3] = 0
            /\ data[4] = FirstIterated(mKeys) % 256
            /\ \A j \in 5 .. 9 : data[j] = 0

\* C11 witness: a report sent with Alt alone in the mask and three keys
\* held, one of them usage 4
C11_Witness ==
    /\ lastCall.op = "sendKey"
    /\ Len(wire) = 1 /\ wire[1].fn = "send"
    /\ mModifiers = KEY_ALT
    /\ Cardinality(mKeys) = 3
    /\ wire[1].data[4] = 4

\* the usages in order.seq
OrderedKeys == {order.seq[i] : i \in DOMAIN order.seq}

\* C12 as claimed: the set is insertion-ordered, so byte 3 of every report
\* holds the oldest key still held.
C12_OldestKeyReported ==
    \A i \in DOMAIN wire :
        (wire[i].fn = "send" /\ order.seq # <<>>)
        => wire[i].data[4] = order.seq[1] % 256

\* C12 as amended: the set is ordered by usage value, so byte 3 of every
\* report holds the smallest usage still held, whenever it was pressed.
C12_SmallestKeyReported ==
    /\ OrderedKeys = mKeys
    /\ \A i \in DOMAIN wire :
        (wire[i].fn = "send" /\ order.seq # <<>>)
        => /\ wire[i].data[4] \in {k % 256 : k \in OrderedKeys}
           /\ \A k \in OrderedKeys : wire[i].data[4] <= k % 256

\* C12 witness: a report sent while the oldest held key is not the smallest
C12_Witness ==
    /\ lastCall.op = "sendKey"
    /\ Len(wire) = 1
    /\ Len(order.seq) >= 2
    /\ \E i \in DOMAIN order.seq : order.seq[i] < order.seq[1]
    /\ wire[1].data[4] # order.seq[1] % 256

\* C13: every sendKey call (modifier or regular, accepted, dropped at
\* capacity or releasing an absent key) transmits exactly one report, and
\* the report encodes the state as it is after the call.
C13_OneReportPerSendKey ==
    [][\A code \in Codes, state \in BOOLEAN :
        (IsCall(code, state) /\ sendKey(code, state))
        => ( /\ Len(wire') = 1
             /\ wire'[1].fn = "send"
             /\ wire'[1].data[2] = mModifiers' % 256
             /\ wire'[1].data[4] = FirstIterated(mKeys') % 256
             /\ hostReport' = wire'[1].data )]_vars

\* C13 witness: one report sent by a regular release that found no entry
C13_Witness ==
    /\ LastRegular(FALSE)
    /\ mKeys = {}
    /\ hostReport # <<>> /\ hostReport[4] = 0
    /\ Len(wire) = 1
    /\ streak.valid = FALSE
    /\ mModifiers % 256 # 0

\* the bits of the modifier byte that stand for the modifier codes held
HeldBits == {codeToModifier(c) : c \in held}

\* C19: in every keyboard report transmitted, the modifiers byte is exactly
\* the set of modifier keys currently held; a report sent before any
\* modifier press carries modifiers = 0.
C19_ModifiersAreHeldKeys ==
    \A i \in DOMAIN wire :
        wire[i].fn = "send" =>
            \A k \in 0 .. 7 :
                (BitAt(wire[i].data[2], k) = 1) <=> (Pow2(k) \in HeldBits)

----------------------------------------------------------------------------
\* Properties of UsbMouse

\* C4: after sendButtons, every button whose Select argument is true has
\* its bit of mButtons set when its State argument is true and cleared when
\* its State argument is false.
C4_SelectedButtonFollowsState ==
    [][\A a \in ButtonArgs :
        sendButtons(a.select, a.state)
        => \A b \in Buttons :
              a.select[b] =>
                  (BitAnd(mButtons', ButtonBit[b]) # 0) = a.state[b]]_vars

\* C5: after sendButtons, every button whose Select argument is false has
\* the bit of mButtons it had before the call, whatever its State argument.
C5_UnselectedButtonKept ==
    [][\A a \in ButtonArgs :
        sendButtons(a.select, a.state)
        => \A b \in Buttons :
              ~a.select[b] =>
                  BitAnd(mButtons', ButtonBit[b]) = BitAnd(mButtons, ButtonBit[b])]_vars

\* the step is a sendButtons, sendRelative or sendWheel call; the arguments
\* are read off the step (lastCall', wire', mScroll'), which the call fixes
IsSendButtons ==
    lastCall'.op = "sendButtons" /\ sendButtons(lastCall'.select, lastCall'.state)
IsSendRelative ==
    lastCall'.op = "sendRelative" /\ sendRelative(wire'[1].x, wire'[1].y)
IsSendWheel ==
    lastCall'.op = "sendWheel" /\ sendWheel(mScroll')

\* C14: sendRelative changes neither the cached position nor the cached
\* buttons or scroll, and of sendButtons, sendRelative, sendMove and
\* sendWheel only sendMove changes the cached position.
C14_OnlyMoveChangesPosition ==
    [][ /\ IsSendRelative
            => UNCHANGED <<mPositionX, mPositionY, mButtons, mScroll>>
        /\ IsSendButtons => UNCHANGED <<mPositionX, mPositionY>>
        /\ IsSendWheel => UNCHANGED <<mPositionX, mPositionY>> ]_vars

\* C14 witness: a relative move of (1, 1) made with the cached position at
\* (-1, -1), as the last update told the host
C14_Witness ==
    /\ lastCall.op = "sendRelative"
    /\ Len(wire) = 1 /\ wire[1].fn = "move" /\ wire[1].x = 1 /\ wire[1].y = 1
    /\ mPositionX = -1 /\ mPositionY = -1
    /\ hostMouse # <<>> /\ hostMouse.x = -1 /\ hostMouse.y = -1

\* the call put exactly one update on the wire, carrying the members as
\* they are after the call
OneUpdateOfNewState ==
    /\ Len(wire') = 1
    /\ wire'[1].fn = "update"
    /\ wire'[1].x = mPositionX' /\ wire'[1].y = mPositionY'
    /\ wire'[1].buttons = mButtons' /\ wire'[1].z = mScroll'

\* C15: each sendButtons, sendMove(x, y) and sendWheel(z) call issues
\* exactly one transport update, after its state change, carrying the
\* cached position, buttons and scroll as they are after the call.
C15_OneUpdateAfterChange ==
    [][ /\ IsSendButtons => OneUpdateOfNewState
        /\ \A x \in Coord, y \in Coord :
              (lastCall'.op = "sendMove" /\ mPositionX' = x /\ mPositionY' = y
                  /\ sendMove(x, y))
              => (OneUpdateOfNewState /\ wire'[1].x = x /\ wire'[1].y = y)
        /\ \A z \in Coord :
              (lastCall'.op = "sendWheel" /\ mScroll' = z /\ sendWheel(z))
              => (OneUpdateOfNewState /\ wire'[1].z = z) ]_vars

\* C15 witness: the update of a sendMove(1, -1), with buttons and scroll set
C15_Witness ==
    /\ lastCall.op = "sendMove"
    /\ Len(wire) = 1 /\ wire[1].fn = "update"
    /\ wire[1].x = 1 /\ wire[1].y = -1
    /\ wire[1].buttons = MOUSE_LEFT /\ wire[1].z = 1

\* C16: clear() sets the cached buttons, position x and y, and scroll to 0.
C16_ClearZeroesMouse ==
    [][UsbMouse_clear
        => (mButtons' = 0 /\ mPositionX' = 0 /\ mPositionY' = 0 /\ mScroll' = 0)]_vars

\* C16 witness: clear() called after the host was told of a pressed button,
\* a position and a scroll value
C16_Witness ==
    /\ lastCall.op = "clearMouse"
    /\ mButtons = 0 /\ mPositionX = 0 /\ mPositionY = 0 /\ mScroll = 0
    /\ hostMouse # <<>>
    /\ hostMouse.buttons # 0 /\ hostMouse.x # 0 /\ hostMouse.y # 0 /\ hostMouse.z # 0

----------------------------------------------------------------------------
\* Properties of Factory

\* C17: in every build and for every requested type, makeKeyboard,
\* makeMouse, makeBoard and makeStorage return an instance, never null: the
\* concrete driver when that variant is configured (PicoBoard for type
\* BOARD), a dummy otherwise, and always a dummy storage.
C17_FactoryNeverNull ==
    /\ \A d \in DOMAIN made : made[d] # "null"
    /\ made.keyboard # "none" =>
          made.keyboard = IF "HID_SET_USB_KBD" \in config THEN "UsbKeyboard"
                          ELSE "DummyKeyboard"
    /\ made.mouse # "none" =>
          made.mouse = IF "HID_SET_USB_MOUSE_ABS" \in config
                            THEN "UsbMouse(USB_MOUSE_ABSOLUTE)"
                       ELSE IF "HID_SET_USB_MOUSE_REL" \in config
                            THEN "UsbMouse(USB_MOUSE_RELATIVE)"
                       ELSE "DummyMouse"
    /\ lastCall.op = "makeBoard" =>
          made.board = IF lastCall.type = "BOARD" THEN "PicoBoard" ELSE "DummyBoard"
    /\ made.board \in {"none", "PicoBoard", "DummyBoard"}
    /\ made.storage \in {"none", "DummyStorage"}
    /\ lastCall.op = "makeStorage" => made.storage = "DummyStorage"

\* C17 witness: a build without the keyboard macro in which all four make*
\* calls have returned, the keyboard as a dummy and the board for type BOARD
C17_Witness ==
    /\ "HID_SET_USB_KBD" \notin config
    /\ made.keyboard = "DummyKeyboard"
    /\ made.mouse = "UsbMouse(USB_MOUSE_RELATIVE)"
    /\ made.board = "PicoBoard"
    /\ made.storage = "DummyStorage"
    /\ lastCall.op = "makeKeyboard" /\ lastCall.type = "USB_KEYBOARD"

----------------------------------------------------------------------------
\* Properties of PicoBoard

\* C18: reset() takes the board from Running to Resetting and never returns,
\* so nothing changes after it; periodic() and updateStatus() change no
\* driver or board state.
C18_ResetIsTerminal ==
    [][ /\ (lastCall'.op = "reset" /\ PicoBoard_reset)
            => (board = "Running" /\ board' = "Resetting")
        /\ board = "Resetting" => UNCHANGED vars
        /\ (lastCall'.op \in {"periodic", "updateStatus"}
              /\ (PicoBoard_periodic \/ UpdateStatus))
            => UNCHANGED <<kbdVars, mouseVars, sysVars>> ]_vars

\* C18 witness: reset() entered while a key and a modifier are held
C18_Witness ==
    /\ board = "Resetting"
    /\ lastCall.op = "reset"
    /\ mKeys # {}
    /\ held # {}

----------------------------------------------------------------------------
\* Properties of the transport

\* C20: keyboard clear() and mouse clear() put nothing on the transport and
\* leave the last report and update the host saw as they were; the host's
\* view changes only with a sendKey (keyboard) or a sendButtons, sendMove or
\* sendWheel (mouse), and then shows the state of that moment.
C20_ClearSendsNothing ==
    [][ /\ (lastCall'.op = "clear" /\ UsbKeyboard_clear)
            => (wire' = <<>> /\ hostReport' = hostReport /\ hostMouse' = hostMouse)
        /\ (lastCall'.op = "clearMouse" /\ UsbMouse_clear)
            => (wire' = <<>> /\ hostReport' = hostReport /\ hostMouse' = hostMouse)
        /\ hostReport' # hostReport
            => ( /\ lastCall'.op = "sendKey"
                 /\ hostReport'[2] = mModifiers' % 256
                 /\ hostReport'[4] = FirstIterated(mKeys') % 256 )
        /\ hostMouse' # hostMouse
            => ( /\ lastCall'.op \in {"sendButtons", "sendMove", "sendWheel"}
                 /\ hostMouse'.x = mPositionX' /\ hostMouse'.y = mPositionY'
                 /\ hostMouse'.buttons = mButtons' /\ hostMouse'.z = mScroll' ) ]_vars

\* C20 witness: the mouse has just been cleared and the keyboard was cleared
\* before, while the host still has a pressed button and a held key
C20_Witness ==
    /\ lastCall.op = "clearMouse"
    /\ wire = <<>>
    /\ mButtons = 0
    /\ hostMouse # <<>> /\ hostMouse.buttons # 0
    /\ mKeys = {}
    /\ hostReport # <<>> /\ hostReport[4] # 0

====
